---- MODULE Spec2Model ----
(***************************************************************************)
(* A model of analyze_video.py: the Annex-B NAL scanner (parse_nal_units), *)
(* the slice classifier (parse_slice_header, analyze_reference_frames),    *)
(* the GOP segmenter (analyze_gop_structure) and the statistics computed   *)
(* by analyze_video.                                                       *)
(*                                                                         *)
(* Python floats are modelled as exact rationals in lowest terms; Python's *)
(* None is the record None below.                                          *)
(***************************************************************************)
EXTENDS Integers, Sequences, FiniteSets, TLC

VARIABLES
    h264_data,   \* parse_nal_units: the byte buffer being scanned
    scan,        \* parse_nal_units: its locals (read position, loop position, units)
    ref_data,    \* the value of analyze_reference_frames(nal_units), None before
    frames,      \* the frame records given to analyze_gop_structure
    seg,         \* analyze_gop_structure: its locals (loop index, gops, current_gop)
    gops,        \* the value of analyze_gop_structure(frames)
    video,       \* analyze_video: what the external tools return for the file
    vpc,         \* analyze_video: position in the function
    packets,     \* analyze_video: packet records
    frame_sizes, \* analyze_video: the sizes of the video packets
    printed,     \* values computed by the print_* functions for their reports
    raised,      \* the exception that ended analyze_video and the function raising it
    result,      \* the value analyze_video returned, None when it returned None
    args,        \* main: the command line (input files, --framerate)
    disk,        \* main: what each path holds when the tools look at it
    main         \* main: its locals (loop index, results) and its output

vars == <<h264_data, scan, ref_data, frames, seg, gops, video, vpc, packets,
          frame_sizes, printed, raised, result, args, disk, main>>

----------------------------------------------------------------------------
(* Bounds of the model *)

\* longest byte buffer given to the step-wise scanner
MaxLen == 9
\* longest frame sequence given to the GOP segmenter
MaxFrames == 5
\* most NAL units in an elementary stream given to analyze_video
MaxNals == 4
\* most packets given to analyze_video
MaxPackets == 4
\* most frames given to analyze_video
MaxVideoFrames == 2

\* The byte values buffers are drawn from: the two start-code bytes and an
\* IDR slice header (0x65: nal_ref_idc 3, nal_unit_type 5).
Bytes == {0, 1, 101}

Min(a, b) == IF a < b THEN a ELSE b

\* Python's None (and a falsy, empty result).
None == [is_none |-> TRUE]
IsNone(x) == "is_none" \in DOMAIN x

\* All sequences over S of length at most n.
SeqsUpTo(S, n) == UNION {[1..k -> S] : k \in 0..n}

----------------------------------------------------------------------------
(* parse_nal_units *)

\* data.read(n) at 0-based position p: at most n bytes, fewer at the end.
Read(buf, p, n) == SubSeq(buf, p + 1, Min(p + n, Len(buf)))

\* chunk[:n]
Take(chunk, n) == SubSeq(chunk, 1, Min(n, Len(chunk)))

StartCode4 == <<0, 0, 0, 1>>
StartCode3 == <<0, 0, 1>>

\* Mutant: the whole header byte taken as the type (the mask forgotten).
NalTypeUnmasked(nal_data) == nal_data[1]

\* nal_data[0] & 0x1F
NalTypeOf(nal_data) == nal_data[1] % 32

\* State of the function on entry: data = io.BytesIO(h264_data), nal_units = [].
ScanInit ==
    [pc |-> "outer", pos |-> 0, start_pos |-> 0, start_code_len |-> 0,
     nal_start |-> 0, next_start |-> 0, nal_units |-> <<>>]

\* Mutant: after a 3-byte start code the seek goes back over the whole chunk.
OuterStepSeekBackAll(buf, st) ==
    LET start_pos == st.pos
        chunk == Read(buf, start_pos, 4)
        after == start_pos + Len(chunk)
    IN  IF Len(chunk) < 4
          THEN [st EXCEPT !.pc = "done", !.start_pos = start_pos, !.pos = after]
        ELSE IF chunk = StartCode4
          THEN [st EXCEPT !.pc = "inner", !.start_pos = start_pos,
                          !.start_code_len = 4, !.pos = after,
                          !.nal_start = after]
        ELSE IF Take(chunk, 3) = StartCode3
          THEN [st EXCEPT !.pc = "inner", !.start_pos = start_pos,
                          !.start_code_len = 3, !.pos = after - 4,
                          !.nal_start = after - 4]
        ELSE [st EXCEPT !.pc = "outer", !.start_pos = start_pos,
                        !.pos = start_pos + 1]

\* One iteration of the outer loop up to the start of the inner search:
\* read 4 bytes, stop on a short read, recognise a 4- or 3-byte start code,
\* or advance one byte.
OuterStep(buf, st) ==
    LET start_pos == st.pos
        chunk == Read(buf, start_pos, 4)
        after == start_pos + Len(chunk)
    IN  IF Len(chunk) < 4
          THEN [st EXCEPT !.pc = "done", !.start_pos = start_pos, !.pos = after]
        ELSE IF chunk = StartCode4
          THEN [st EXCEPT !.pc = "inner", !.start_pos = start_pos,
                          !.start_code_len = 4, !.pos = after,
                          !.nal_start = after]
        ELSE IF Take(chunk, 3) = StartCode3
          THEN [st EXCEPT !.pc = "inner", !.start_pos = start_pos,
                          !.start_code_len = 3, !.pos = after - 1,
                          !.nal_start = after - 1]
        ELSE [st EXCEPT !.pc = "outer", !.start_pos = start_pos,
                        !.pos = start_pos + 1]

\* Mutant: the inner search recognises only the 4-byte start code.
InnerStepOnly4(buf, st) ==
    LET pos == st.pos
        chunk == Read(buf, pos, 4)
        after == pos + Len(chunk)
    IN  IF Len(chunk) < 3
          THEN [st EXCEPT !.pc = "extract", !.pos = after,
                          !.next_start = Len(buf)]
        ELSE IF Take(chunk, 4) = StartCode4
          THEN [st EXCEPT !.pc = "extract", !.pos = after, !.next_start = pos]
        ELSE [st EXCEPT !.pc = "inner", !.pos = pos + 1]

\* One iteration of the inner search for the next start code.
InnerStep(buf, st) ==
    LET pos == st.pos
        chunk == Read(buf, pos, 4)
        after == pos + Len(chunk)
    IN  IF Len(chunk) < 3
          THEN [st EXCEPT !.pc = "extract", !.pos = after,
                          !.next_start = Len(buf)]
        ELSE IF Take(chunk, 4) = StartCode4 \/ Take(chunk, 3) = StartCode3
          THEN [st EXCEPT !.pc = "extract", !.pos = after, !.next_start = pos]
        ELSE [st EXCEPT !.pc = "inner", !.pos = pos + 1]

\* Mutant: the unit is appended even when no payload byte was read.
ExtractStepKeepEmpty(buf, st) ==
    LET nal_size == st.next_start - st.nal_start
        nal_data == Read(buf, st.nal_start, nal_size)
        unit == [type |-> IF nal_data # <<>> THEN nal_data[1] % 32 ELSE 0,
                 data |-> nal_data, size |-> nal_size, offset |-> st.nal_start]
    IN  [st EXCEPT !.pc = "outer", !.pos = st.next_start,
                   !.nal_units = Append(@, unit)]

\* Extract the unit: seek to nal_start, read nal_size bytes, append the unit
\* when it is not empty, then seek to next_start.
ExtractStep(buf, st) ==
    LET nal_size == st.next_start - st.nal_start
        nal_data == Read(buf, st.nal_start, nal_size)
        unit == [type |-> NalTypeOf(nal_data), data |-> nal_data,
                 size |-> nal_size, offset |-> st.nal_start]
    IN  [st EXCEPT !.pc = "outer", !.pos = st.next_start,
                   !.nal_units = IF nal_data # <<>> THEN Append(@, unit) ELSE @]

ScanStep(buf, st) ==
    CASE st.pc = "outer" -> OuterStep(buf, st)
      [] st.pc = "inner" -> InnerStep(buf, st)
      [] st.pc = "extract" -> ExtractStep(buf, st)

RECURSIVE ScanRun(_, _)
ScanRun(buf, st) ==
    IF st.pc = "done" THEN st ELSE ScanRun(buf, ScanStep(buf, st))

\* The function as a whole.
parse_nal_units(buf) == ScanRun(buf, ScanInit).nal_units

----------------------------------------------------------------------------
(* parse_slice_header, analyze_reference_frames *)

SliceTypes == {1, 2, 3, 4, 5}

\* slice_info['slice_type']: set for IDR and non-IDR slices, else left None.
SliceTypeOf(nal_type) ==
    IF nal_type = 5 THEN "I"
    ELSE IF nal_type = 1 THEN "P/B"
    ELSE "None"

\* Mutant: data partition B (type 3) is also taken as a reference picture.
IsReferenceWithPartitionB(nal_type) == nal_type \in {1, 2, 3, 5}

\* slice_info['is_reference']
IsReference(nal_type) == nal_type \in {1, 2, 5}

\* Mutant: no check of the payload length.
ParseSliceHeaderAnyLength(nal_data) ==
    LET nal_type == NalTypeOf(nal_data)
    IN  IF nal_type \notin SliceTypes THEN None
        ELSE [nal_type |-> nal_type,
              slice_type |-> SliceTypeOf(nal_type),
              frame_num |-> "None",
              idr_pic_id |-> IF nal_type # 5 THEN "None" ELSE "0",
              is_reference |-> IsReference(nal_type)]

\* Mutant: referenceability read from nal_ref_idc, the header's bits 5-6.
ParseSliceHeaderRefIdc(nal_data) ==
    IF Len(nal_data) < 2 THEN None
    ELSE LET nal_type == NalTypeOf(nal_data)
         IN  IF nal_type \notin SliceTypes THEN None
             ELSE [nal_type |-> nal_type,
                   slice_type |-> SliceTypeOf(nal_type),
                   frame_num |-> "None",
                   idr_pic_id |-> IF nal_type # 5 THEN "None" ELSE "0",
                   is_reference |-> (nal_data[1] \div 32) % 4 # 0]

parse_slice_header(nal_data) ==
    IF Len(nal_data) < 2 THEN None
    ELSE LET nal_type == NalTypeOf(nal_data)
         IN  IF nal_type \notin SliceTypes THEN None
             ELSE [nal_type |-> nal_type,
                   slice_type |-> SliceTypeOf(nal_type),
                   frame_num |-> "None",
                   idr_pic_id |-> IF nal_type # 5 THEN "None" ELSE "0",
                   is_reference |-> IsReference(nal_type)]

\* The record analyze_reference_frames appends for one slice unit.
FrameInfoOf(nal, slice_info) ==
    [nal_type |-> nal.type, slice_type |-> slice_info.slice_type,
     is_reference |-> slice_info.is_reference, size |-> nal.size]

\* The loop of analyze_reference_frames over nal_units[1..n].
RECURSIVE RefLoop(_, _)
RefLoop(nal_units, n) ==
    IF n = 0 THEN [has_sps |-> FALSE, has_pps |-> FALSE, frames |-> <<>>]
    ELSE LET acc == RefLoop(nal_units, n - 1)
             nal == nal_units[n]
         IN  IF nal.type = 7 THEN [acc EXCEPT !.has_sps = TRUE]
             ELSE IF nal.type = 8 THEN [acc EXCEPT !.has_pps = TRUE]
             ELSE IF nal.type \in SliceTypes
               THEN LET slice_info == parse_slice_header(nal.data)
                    IN  IF IsNone(slice_info) THEN acc
                        ELSE [acc EXCEPT !.frames =
                                  Append(@, FrameInfoOf(nal, slice_info))]
             ELSE acc

analyze_reference_frames(nal_units) == RefLoop(nal_units, Len(nal_units))

----------------------------------------------------------------------------
(* analyze_gop_structure *)

\* frame.get('pict_type', 'Unknown')
FrameType(frame) ==
    IF "pict_type" \in DOMAIN frame THEN frame.pict_type ELSE "Unknown"

\* The entry stored for frame i (0-based); its pts is copied along and never
\* read, and is left out here.
GopEntry(i, frame) == [index |-> i, type |-> FrameType(frame)]

\* Locals on entry: gops = [], current_gop = [].
SegInit == [pc |-> "loop", i |-> 0, gops |-> <<>>, current_gop |-> <<>>]

\* Mutant: a new I frame replaces the open GOP without saving it.
GopIterationDropsOpen(st, frame) ==
    IF FrameType(frame) = "I"
      THEN [st EXCEPT !.i = @ + 1, !.current_gop = <<GopEntry(st.i, frame)>>]
      ELSE [st EXCEPT !.i = @ + 1,
                      !.current_gop = Append(@, GopEntry(st.i, frame))]

\* Mutant: a frame without pict_type also opens a new GOP.
GopIterationUnknownIsKey(st, frame) ==
    IF FrameType(frame) \in {"I", "Unknown"}
      THEN [st EXCEPT !.i = @ + 1,
                      !.gops = IF st.current_gop # <<>>
                                 THEN Append(@, st.current_gop) ELSE @,
                      !.current_gop = <<GopEntry(st.i, frame)>>]
      ELSE [st EXCEPT !.i = @ + 1,
                      !.current_gop = Append(@, GopEntry(st.i, frame))]

\* One iteration of the loop, for frame number st.i.
GopIteration(st, frame) ==
    IF FrameType(frame) = "I"
      THEN [st EXCEPT !.i = @ + 1,
                      !.gops = IF st.current_gop # <<>>
                                 THEN Append(@, st.current_gop) ELSE @,
                      !.current_gop = <<GopEntry(st.i, frame)>>]
      ELSE [st EXCEPT !.i = @ + 1,
                      !.current_gop = Append(@, GopEntry(st.i, frame))]

\* After the loop: the last GOP is added when it is not empty.
GopFinish(st) ==
    [st EXCEPT !.pc = "done",
               !.gops = IF st.current_gop # <<>>
                          THEN Append(@, st.current_gop) ELSE @]

SegStep(fs, st) ==
    IF st.i < Len(fs) THEN GopIteration(st, fs[st.i + 1]) ELSE GopFinish(st)

RECURSIVE SegRun(_, _)
SegRun(fs, st) == IF st.pc = "done" THEN st ELSE SegRun(fs, SegStep(fs, st))

\* The function as a whole.
analyze_gop_structure(fs) == SegRun(fs, SegInit).gops

----------------------------------------------------------------------------
(* Numbers: Python's true division gives a float, modelled as the exact
   rational in lowest terms with a positive denominator *)

Abs(n) == IF n < 0 THEN -n ELSE n

RECURSIVE GCD(_, _)
GCD(a, b) == IF b = 0 THEN a ELSE GCD(b, a % b)

Rat(n, d) ==
    LET g == GCD(Abs(n), Abs(d))
        sgn == IF d < 0 THEN -1 ELSE 1
    IN  [num |-> (sgn * n) \div g, den |-> (sgn * d) \div g]

RatOfInt(n) == [num |-> n, den |-> 1]

\* a / b for b # 0 (Python raises ZeroDivisionError when b = 0: the callers
\* below test for it first).
TrueDiv(a, b) == Rat(a.num * b.den, a.den * b.num)

RatTimesInt(a, k) == Rat(a.num * k, a.den)

RatIsPositive(a) == a.num > 0

RECURSIVE SumSeq(_, _)
SumSeq(xs, n) == IF n = 0 THEN 0 ELSE SumSeq(xs, n - 1) + xs[n]

RECURSIVE MaxSeq(_, _)
MaxSeq(xs, n) ==
    IF n = 1 THEN xs[1]
    ELSE LET m == MaxSeq(xs, n - 1) IN IF xs[n] > m THEN xs[n] ELSE m

----------------------------------------------------------------------------
(* analyze_bitrate, print_gop_analysis, print_bitrate_analysis,
   print_reference_analysis *)

\* int(s) for a string of decimal digits, given as the sequence of its digits.
RECURSIVE ParseInt(_, _)
ParseInt(digits, n) ==
    IF n = 0 THEN 0 ELSE ParseInt(digits, n - 1) * 10 + digits[n]

\* int(packet.get('size', 0))
PacketSize(packet) ==
    IF "size" \in DOMAIN packet THEN ParseInt(packet.size, Len(packet.size))
    ELSE 0

\* The loop of analyze_bitrate over packets[1..n].
RECURSIVE BitrateLoop(_, _)
BitrateLoop(ps, n) ==
    IF n = 0 THEN [frame_sizes |-> <<>>, total_size |-> 0]
    ELSE LET acc == BitrateLoop(ps, n - 1)
             packet == ps[n]
         IN  IF "codec_type" \in DOMAIN packet /\ packet.codec_type = "video"
               THEN [frame_sizes |-> Append(acc.frame_sizes, PacketSize(packet)),
                     total_size |-> acc.total_size + PacketSize(packet)]
               ELSE acc

analyze_bitrate(ps) == BitrateLoop(ps, Len(ps))

\* print_gop_analysis divides the GOP sizes by framerate when there is a GOP.
PrintGopRaises(gs, framerate) == gs # <<>> /\ framerate = 0

\* frame_bits = [size * 8 for size in frame_sizes]
FrameBits(sizes) == [k \in 1..Len(sizes) |-> sizes[k] * 8]

\* print_bitrate_analysis: the exception it raises ("" when none) and the
\* average bitrate it prints (None when it prints none).
print_bitrate_analysis(sizes, framerate) ==
    IF sizes = <<>> THEN [raised |-> "", avg_bitrate |-> None]
    ELSE IF framerate = 0
      THEN [raised |-> "ZeroDivisionError", avg_bitrate |-> None]
    ELSE LET frame_bits == FrameBits(sizes)
             total_bits == SumSeq(frame_bits, Len(frame_bits))
             duration == TrueDiv(RatOfInt(Len(sizes)), RatOfInt(framerate))
         IN  [raised |-> "",
              avg_bitrate |-> IF RatIsPositive(duration)
                                THEN TrueDiv(RatOfInt(total_bits), duration)
                                ELSE RatOfInt(0)]

\* sum(1 for f in fs if P(f)), for the three counts of the report.
RECURSIVE CountIdr(_, _)
CountIdr(fs, n) ==
    IF n = 0 THEN 0
    ELSE CountIdr(fs, n - 1) + (IF fs[n].nal_type = 5 THEN 1 ELSE 0)

RECURSIVE CountNonIdrRef(_, _)
CountNonIdrRef(fs, n) ==
    IF n = 0 THEN 0
    ELSE CountNonIdrRef(fs, n - 1)
           + (IF fs[n].nal_type \in {1, 2} /\ fs[n].is_reference THEN 1 ELSE 0)

RECURSIVE CountNonRef(_, _)
CountNonRef(fs, n) ==
    IF n = 0 THEN 0
    ELSE CountNonRef(fs, n - 1) + (IF ~fs[n].is_reference THEN 1 ELSE 0)

RECURSIVE CountRef(_, _)
CountRef(fs, n) ==
    IF n = 0 THEN 0
    ELSE CountRef(fs, n - 1) + (IF fs[n].is_reference THEN 1 ELSE 0)

\* print_reference_analysis: the counts and the ratio it prints, None when it
\* finds no frame data.
print_reference_analysis(rd) ==
    IF rd.frames = <<>> THEN [ref_counts |-> None, ref_ratio |-> None]
    ELSE LET fs == rd.frames
             idr_count == CountIdr(fs, Len(fs))
             non_idr_ref_count == CountNonIdrRef(fs, Len(fs))
             non_ref_count == CountNonRef(fs, Len(fs))
             ref_frames == idr_count + non_idr_ref_count
         IN  [ref_counts |-> [total |-> Len(fs), idr |-> idr_count,
                              non_idr_ref |-> non_idr_ref_count,
                              non_ref |-> non_ref_count],
              ref_ratio |-> RatTimesInt(
                  TrueDiv(RatOfInt(ref_frames), RatOfInt(Len(fs))), 100)]

----------------------------------------------------------------------------
(* analyze_video *)

\* Mutant: only IDR slices are counted as reference frames.
RefRatioIdrOnly(ref_frames) ==
    IF ref_frames = <<>> THEN RatOfInt(0)
    ELSE RatTimesInt(TrueDiv(RatOfInt(CountIdr(ref_frames, Len(ref_frames))),
                             RatOfInt(Len(ref_frames))), 100)

\* ref_ratio of the summary.
RefRatio(ref_frames) ==
    IF ref_frames = <<>> THEN RatOfInt(0)
    ELSE LET total_ref == CountRef(ref_frames, Len(ref_frames))
         IN  RatTimesInt(TrueDiv(RatOfInt(total_ref),
                                 RatOfInt(Len(ref_frames))), 100)

\* sum(1 for gop in gops for frame in gop if frame['type'] == 'I')
RECURSIVE CountIFrames(_, _)
CountIFrames(gs, n) ==
    IF n = 0 THEN 0
    ELSE CountIFrames(gs, n - 1)
           + Cardinality({k \in 1..Len(gs[n]) : gs[n][k].type = "I"})

RECURSIVE TotalGopLen(_, _)
TotalGopLen(gs, n) == IF n = 0 THEN 0 ELSE TotalGopLen(gs, n - 1) + Len(gs[n])

\* The summary dictionary, computed when there are frame sizes and GOPs.
SummaryValue(sizes, gs, rd, framerate) ==
    LET duration == TrueDiv(RatOfInt(Len(sizes)), RatOfInt(framerate))
    IN  [avg_bitrate |-> IF RatIsPositive(duration)
                           THEN TrueDiv(RatOfInt(SumSeq(sizes, Len(sizes)) * 8),
                                        duration)
                           ELSE RatOfInt(0),
         avg_gop_size |-> IF gs # <<>>
                            THEN Rat(TotalGopLen(gs, Len(gs)), Len(gs))
                            ELSE RatOfInt(0),
         peak_frame_mbps |-> IF sizes # <<>>
                               THEN Rat(MaxSeq(sizes, Len(sizes)) * 8 * framerate,
                                        1000000)
                               ELSE RatOfInt(0),
         i_frame_count |-> CountIFrames(gs, Len(gs)),
         ref_ratio |-> RefRatio(rd.frames)]

\* Mutant: the summary is computed whenever there is a GOP.
HasSummaryGopsOnly(sizes, gs) == gs # <<>>

\* if frame_sizes and gops
HasSummary(sizes, gs) == sizes # <<>> /\ gs # <<>>

\* The end of analyze_video: the exception raised ("" when none) and the
\* value returned.
Summary(sizes, gs, rd, framerate) ==
    IF ~HasSummary(sizes, gs) THEN [raised |-> "", value |-> None]
    ELSE IF framerate = 0 THEN [raised |-> "ZeroDivisionError", value |-> None]
    ELSE [raised |-> "", value |-> SummaryValue(sizes, gs, rd, framerate)]

----------------------------------------------------------------------------
(* The scanner, step by step, followed by the classifier *)

\* Values of the variables a specification does not use.
NoScan == [pc |-> "idle", nal_units |-> <<>>]
NoSeg == [pc |-> "idle", gops |-> <<>>]
NoException == [exc |-> "", at |-> ""]
\* main is not running.
NoArgs == [videos |-> <<>>, framerate |-> 60]

NoDisk == <<>>

NoMain == [pc |-> "idle"]

NothingPrinted == [avg_bitrate |-> None, ref_counts |-> None, ref_ratio |-> None]

Init ==
    /\ h264_data \in SeqsUpTo(Bytes, MaxLen)
    /\ scan = ScanInit
    /\ ref_data = None
    /\ frames = <<>>
    /\ seg = NoSeg
    /\ gops = <<>>
    /\ video = None
    /\ vpc = "idle"
    /\ packets = <<>>
    /\ frame_sizes = <<>>
    /\ printed = NothingPrinted
    /\ raised = NoException
    /\ result = None
    /\ args = NoArgs
    /\ disk = NoDisk
    /\ main = NoMain

OuterLoop ==
    /\ scan.pc = "outer"
    /\ scan' = OuterStep(h264_data, scan)
    /\ UNCHANGED <<args, disk, main, h264_data, ref_data, frames, seg, gops, video, vpc, packets,
                   frame_sizes, printed, raised, result>>

InnerLoop ==
    /\ scan.pc = "inner"
    /\ scan' = InnerStep(h264_data, scan)
    /\ UNCHANGED <<args, disk, main, h264_data, ref_data, frames, seg, gops, video, vpc, packets,
                   frame_sizes, printed, raised, result>>

ExtractUnit ==
    /\ scan.pc = "extract"
    /\ scan' = ExtractStep(h264_data, scan)
    /\ UNCHANGED <<args, disk, main, h264_data, ref_data, frames, seg, gops, video, vpc, packets,
                   frame_sizes, printed, raised, result>>

\* parse_nal_units has returned; its list is classified.
Classify ==
    /\ scan.pc = "done"
    /\ vpc = "idle"
    /\ IsNone(ref_data)
    /\ ref_data' = analyze_reference_frames(scan.nal_units)
    /\ UNCHANGED <<args, disk, main, h264_data, scan, frames, seg, gops, video, vpc, packets,
                   frame_sizes, printed, raised, result>>

Next == OuterLoop \/ InnerLoop \/ ExtractUnit \/ Classify

Spec == Init /\ [][Next]_vars

----------------------------------------------------------------------------
(* The GOP segmenter, step by step *)

\* Frame records as ffprobe gives them: with a pict_type, or without one.
FrameKinds == {[pict_type |-> "I"], [pict_type |-> "P"], [pict_type |-> "B"],
               [media_type |-> "video"]}

InitGop ==
    /\ frames \in SeqsUpTo(FrameKinds, MaxFrames)
    /\ seg = SegInit
    /\ gops = <<>>
    /\ h264_data = <<>>
    /\ scan = NoScan
    /\ ref_data = None
    /\ video = None
    /\ vpc = "idle"
    /\ packets = <<>>
    /\ frame_sizes = <<>>
    /\ printed = NothingPrinted
    /\ raised = NoException
    /\ result = None
    /\ args = NoArgs
    /\ disk = NoDisk
    /\ main = NoMain

GopLoopBody ==
    /\ seg.pc = "loop"
    /\ seg.i < Len(frames)
    /\ seg' = GopIteration(seg, frames[seg.i + 1])
    /\ UNCHANGED <<args, disk, main, h264_data, scan, ref_data, frames, gops, video, vpc,
                   packets, frame_sizes, printed, raised, result>>

GopReturn ==
    /\ seg.pc = "loop"
    /\ seg.i = Len(frames)
    /\ seg' = GopFinish(seg)
    /\ gops' = seg'.gops
    /\ UNCHANGED <<args, disk, main, h264_data, scan, ref_data, frames, video, vpc,
                   packets, frame_sizes, printed, raised, result>>

NextGop == GopLoopBody \/ GopReturn

SpecGop == InitGop /\ [][NextGop]_vars

----------------------------------------------------------------------------
(* analyze_video, step by step *)

\* Frame rates the caller may pass (--framerate is any integer).
FrameRates == {-30, 0, 1, 60}

VideoFrameKinds == {[pict_type |-> "I"], [pict_type |-> "P"]}

\* Packet records as ffprobe gives them: the size is a string of digits.
PacketKinds == {[codec_type |-> "video", size |-> <<1, 0, 0, 0>>],
                [codec_type |-> "video", size |-> <<2, 5, 0>>],
                [codec_type |-> "audio", size |-> <<5, 0, 0>>]}

\* NAL units an elementary stream is made of, header byte first: a lone IDR
\* header, IDR slice, non-IDR slices with nal_ref_idc 2 and 0, partitions A,
\* B and C, and an SPS.
UnitKinds == {<<101>>, <<101, 128>>, <<65, 128>>, <<1, 128>>, <<66, 128>>,
              <<35, 128>>, <<36, 128>>, <<103, 128>>}

\* The Annex-B stream of the units: a 4-byte start code before the first
\* unit, 3-byte start codes before the others.
RECURSIVE AnnexB(_, _)
AnnexB(units, n) ==
    IF n = 0 THEN <<>>
    ELSE AnnexB(units, n - 1)
           \o (IF n = 1 THEN StartCode4 ELSE StartCode3) \o units[n]

\* What ffprobe and ffmpeg return: many packets and frame rates with no
\* elementary stream ...
RateInputs ==
    [frame_data : {None} \cup {[frames |-> fs] :
                       fs \in SeqsUpTo(VideoFrameKinds, MaxVideoFrames)},
     packet_data : {None} \cup {[packets |-> ps] :
                       ps \in SeqsUpTo(PacketKinds, MaxPackets)},
     stream : {None},
     framerate : FrameRates]

\* ... and one frame and one packet at 60 frames/s with many elementary
\* streams.
StreamInputs ==
    [frame_data : {[frames |-> <<[pict_type |-> "I"]>>]},
     packet_data : {[packets |-> <<[codec_type |-> "video",
                                    size |-> <<1, 0, 0, 0>>]>>]},
     stream : {None} \cup {[data |-> AnnexB(us, Len(us))] :
                   us \in SeqsUpTo(UnitKinds, MaxNals)},
     framerate : {60}]

InitVideo ==
    /\ video \in RateInputs \cup StreamInputs
    /\ vpc = "frame_data"
    /\ frames = <<>>
    /\ packets = <<>>
    /\ seg = NoSeg
    /\ gops = <<>>
    /\ frame_sizes = <<>>
    /\ h264_data = <<>>
    /\ scan = NoScan
    /\ ref_data = None
    /\ printed = NothingPrinted
    /\ raised = NoException
    /\ result = None
    /\ args = NoArgs
    /\ disk = NoDisk
    /\ main = NoMain

\* frame_data = run_ffprobe(video_path, 'frame')
GetFrames ==
    /\ vpc = "frame_data"
    /\ IF IsNone(video.frame_data)
         THEN /\ vpc' = "returned"
              /\ frames' = frames
         ELSE /\ vpc' = "packet_data"
              /\ frames' = video.frame_data.frames
    /\ UNCHANGED <<args, disk, main, h264_data, scan, ref_data, seg, gops, video, packets,
                   frame_sizes, printed, raised, result>>

\* Mutant: a failed packet query is taken as an empty packet list.
GetPacketsIgnoreFailure ==
    /\ vpc = "packet_data"
    /\ vpc' = "gop"
    /\ packets' = IF IsNone(video.packet_data) THEN <<>>
                  ELSE video.packet_data.packets
    /\ UNCHANGED <<args, disk, main, h264_data, scan, ref_data, frames, seg, gops, video,
                   frame_sizes, printed, raised, result>>

\* packet_data = run_ffprobe(video_path, 'packet')
GetPackets ==
    /\ vpc = "packet_data"
    /\ IF IsNone(video.packet_data)
         THEN /\ vpc' = "returned"
              /\ packets' = packets
         ELSE /\ vpc' = "gop"
              /\ packets' = video.packet_data.packets
    /\ UNCHANGED <<args, disk, main, h264_data, scan, ref_data, frames, seg, gops, video,
                   frame_sizes, printed, raised, result>>

\* gops = analyze_gop_structure(frames); print_gop_analysis(gops, framerate)
GopAnalysis ==
    /\ vpc = "gop"
    /\ seg' = SegRun(frames, SegInit)
    /\ gops' = seg'.gops
    /\ IF PrintGopRaises(gops', video.framerate)
         THEN /\ vpc' = "raised"
              /\ raised' = [exc |-> "ZeroDivisionError",
                            at |-> "print_gop_analysis"]
         ELSE /\ vpc' = "bitrate"
              /\ raised' = raised
    /\ UNCHANGED <<args, disk, main, h264_data, scan, ref_data, frames, video, packets,
                   frame_sizes, printed, result>>

\* frame_sizes, total_size = analyze_bitrate(packets);
\* print_bitrate_analysis(frame_sizes, framerate)
BitrateAnalysis ==
    /\ vpc = "bitrate"
    /\ frame_sizes' = analyze_bitrate(packets).frame_sizes
    /\ LET out == print_bitrate_analysis(frame_sizes', video.framerate)
       IN  IF out.raised # ""
             THEN /\ vpc' = "raised"
                  /\ raised' = [exc |-> out.raised,
                                at |-> "print_bitrate_analysis"]
                  /\ printed' = printed
             ELSE /\ vpc' = "nal"
                  /\ raised' = raised
                  /\ printed' = [printed EXCEPT !.avg_bitrate = out.avg_bitrate]
    /\ UNCHANGED <<args, disk, main, h264_data, scan, ref_data, frames, seg, gops, video,
                   packets, result>>

\* h264_data = extract_raw_h264_stream(video_path), then the scanner, the
\* classifier and the reference report, or an empty frame list.
NalAnalysis ==
    /\ vpc = "nal"
    /\ IF ~IsNone(video.stream) /\ video.stream.data # <<>>
         THEN /\ h264_data' = video.stream.data
              /\ scan' = ScanRun(h264_data', ScanInit)
              /\ ref_data' = analyze_reference_frames(scan'.nal_units)
              /\ LET out == print_reference_analysis(ref_data')
                 IN  printed' = [printed EXCEPT !.ref_counts = out.ref_counts,
                                                !.ref_ratio = out.ref_ratio]
         ELSE /\ ref_data' = [frames |-> <<>>]
              /\ UNCHANGED <<h264_data, scan, printed>>
    /\ vpc' = "summary"
    /\ UNCHANGED <<args, disk, main, frames, seg, gops, video, packets,
                   frame_sizes, raised,
                   result>>

\* The summary returned for the comparison, or None.
ReturnSummary ==
    /\ vpc = "summary"
    /\ LET out == Summary(frame_sizes, gops, ref_data, video.framerate)
       IN  IF out.raised # ""
             THEN /\ vpc' = "raised"
                  /\ raised' = [exc |-> out.raised, at |-> "analyze_video"]
                  /\ result' = result
             ELSE /\ vpc' = "returned"
                  /\ raised' = raised
                  /\ result' = out.value
    /\ UNCHANGED <<args, disk, main, h264_data, scan, ref_data, frames, seg, gops, video,
                   packets, frame_sizes, printed>>

NextVideo ==
    GetFrames \/ GetPackets \/ GopAnalysis \/ BitrateAnalysis \/ NalAnalysis
    \/ ReturnSummary

SpecVideo == InitVideo /\ [][NextVideo]_vars

----------------------------------------------------------------------------
(* main: the loop over the input files and the comparison table *)

MaxFiles == 3

\* Paths on the command line: two of them end in the same file name.
Paths == {[dir |-> "x", name |-> "a.mp4"],
          [dir |-> "y", name |-> "a.mp4"],
          [dir |-> "x", name |-> "b.mp4"]}

\* Path(video_path).name
PathName(path) == path.name

\* What a path may hold: no file; a file ffprobe cannot read frames from; one
\* it cannot read packets from; a two-frame file with an elementary stream of
\* an IDR slice and a non-reference slice; a one-frame file without stream.
FileContents ==
    {[exists |-> FALSE],
     [exists |-> TRUE, frame_data |-> None, packet_data |-> None,
      stream |-> None],
     [exists |-> TRUE,
      frame_data |-> [frames |-> <<[pict_type |-> "I"]>>],
      packet_data |-> None, stream |-> None],
     [exists |-> TRUE,
      frame_data |-> [frames |-> <<[pict_type |-> "I"], [pict_type |-> "P"]>>],
      packet_data |-> [packets |->
                         <<[codec_type |-> "video", size |-> <<1, 0, 0, 0>>],
                           [codec_type |-> "video", size |-> <<2, 5, 0>>]>>],
      stream |-> [data |-> AnnexB(<<(<<101, 128>>), (<<1, 128>>)>>, 2)]],
     [exists |-> TRUE,
      frame_data |-> [frames |-> <<[pict_type |-> "I"]>>],
      packet_data |-> [packets |->
                         <<[codec_type |-> "video", size |-> <<2, 5, 0>>]>>],
      stream |-> None]}

\* results[key] = value on a dict that keeps insertion order: a key already
\* present keeps its place and takes the new value.
DictSet(d, key, value) ==
    IF \E k \in 1..Len(d) : d[k].key = key
      THEN [k \in 1..Len(d) |->
              IF d[k].key = key THEN [key |-> key, value |-> value] ELSE d[k]]
      ELSE Append(d, [key |-> key, value |-> value])

\* The row print_comparison_table prints for one item of results.
TableRow(item) ==
    [filename |-> item.key,
     avg_bitrate |-> TrueDiv(item.value.avg_bitrate, RatOfInt(1000000)),
     gop_size |-> item.value.avg_gop_size,
     peak_frame |-> item.value.peak_frame_mbps,
     i_frame_count |-> item.value.i_frame_count,
     ref_ratio |-> item.value.ref_ratio]

print_comparison_table(results) ==
    [k \in 1..Len(results) |-> TableRow(results[k])]

\* What one call of analyze_video was given and what it computed.
CallRecord(index) ==
    [index |-> index,
     input |-> video,
     nal_units |-> scan.nal_units,
     ref_data |-> ref_data,
     gops |-> gops,
     frame_sizes |-> frame_sizes,
     result |-> result]

InitMain ==
    /\ args \in [videos : SeqsUpTo(Paths, MaxFiles) \ {<<>>},
                 framerate : {0, 60}]
    /\ disk \in [Paths -> FileContents]
    /\ main = [pc |-> "loop", i |-> 0, results |-> <<>>, table |-> None,
               analyzed |-> <<>>]
    /\ video = None
    /\ vpc = "idle"
    /\ frames = <<>>
    /\ packets = <<>>
    /\ seg = NoSeg
    /\ gops = <<>>
    /\ frame_sizes = <<>>
    /\ h264_data = <<>>
    /\ scan = NoScan
    /\ ref_data = None
    /\ printed = NothingPrinted
    /\ raised = NoException
    /\ result = None

\* Mutant: the call hands back what the call before it left behind.
CallKeepsResult(path) ==
    /\ video' = [frame_data |-> disk[path].frame_data,
                 packet_data |-> disk[path].packet_data,
                 stream |-> disk[path].stream,
                 framerate |-> args.framerate]
    /\ vpc' = "frame_data"
    /\ UNCHANGED <<frames, packets, seg, gops, frame_sizes, h264_data, scan,
                   ref_data, printed, raised, result>>

\* The call analyze_video(path, args.framerate): its locals are new ones.
CallAnalyzeVideo(path) ==
    /\ video' = [frame_data |-> disk[path].frame_data,
                 packet_data |-> disk[path].packet_data,
                 stream |-> disk[path].stream,
                 framerate |-> args.framerate]
    /\ vpc' = "frame_data"
    /\ frames' = <<>>
    /\ packets' = <<>>
    /\ seg' = NoSeg
    /\ gops' = <<>>
    /\ frame_sizes' = <<>>
    /\ h264_data' = <<>>
    /\ scan' = NoScan
    /\ ref_data' = None
    /\ printed' = NothingPrinted
    /\ raised' = NoException
    /\ result' = None

\* for video_path in args.videos: a path that does not exist is reported and
\* skipped, any other is handed to analyze_video.
MainLoopBody ==
    /\ main.pc = "loop"
    /\ main.i < Len(args.videos)
    /\ LET path == args.videos[main.i + 1]
       IN  IF ~disk[path].exists
             THEN /\ main' = [main EXCEPT !.i = main.i + 1]
                  /\ UNCHANGED <<h264_data, scan, ref_data, frames, seg, gops,
                                 video, vpc, packets, frame_sizes, printed,
                                 raised, result>>
             ELSE /\ main' = [main EXCEPT !.pc = "call"]
                  /\ CallAnalyzeVideo(path)
    /\ UNCHANGED <<args, disk>>

\* if result: results[path.name] = result
MainStoreResult ==
    /\ main.pc = "call"
    /\ vpc = "returned"
    /\ main' = [main EXCEPT
                  !.pc = "loop",
                  !.i = main.i + 1,
                  !.analyzed = Append(main.analyzed, CallRecord(main.i + 1)),
                  !.results =
                      IF IsNone(result) THEN main.results
                      ELSE DictSet(main.results,
                                   PathName(args.videos[main.i + 1]), result)]
    /\ UNCHANGED <<args, disk, h264_data, scan, ref_data, frames, seg, gops,
                   video, vpc, packets, frame_sizes, printed, raised, result>>

\* An exception of analyze_video is not caught: it ends main.
MainRaised ==
    /\ main.pc = "call"
    /\ vpc = "raised"
    /\ main' = [main EXCEPT !.pc = "raised"]
    /\ UNCHANGED <<args, disk, h264_data, scan, ref_data, frames, seg, gops,
                   video, vpc, packets, frame_sizes, printed, raised, result>>

\* if len(results) > 1: print_comparison_table(results)
MainCompare ==
    /\ main.pc = "loop"
    /\ main.i = Len(args.videos)
    /\ main' = [main EXCEPT
                  !.pc = "done",
                  !.table = IF Len(main.results) > 1
                              THEN print_comparison_table(main.results)
                              ELSE None]
    /\ UNCHANGED <<args, disk, h264_data, scan, ref_data, frames, seg, gops,
                   video, vpc, packets, frame_sizes, printed, raised, result>>

NextMain ==
    MainLoopBody \/ GetFrames \/ GetPackets \/ GopAnalysis \/ BitrateAnalysis
    \/ NalAnalysis \/ ReturnSummary \/ MainStoreResult \/ MainRaised
    \/ MainCompare

SpecMain == InitMain /\ [][NextMain]_vars

----------------------------------------------------------------------------
(* Properties of the scanner *)

\* A 3- or 4-byte start code begins at 0-based position p of buf.
IsStartAt(buf, p) ==
    Read(buf, p, 3) = StartCode3 \/ Read(buf, p, 4) = StartCode4

\* The length of the start code that begins at p.
StartLenAt(buf, p) == IF Read(buf, p, 4) = StartCode4 THEN 4 ELSE 3

StartPositions(buf) == {p \in 0..(Len(buf) - 1) : IsStartAt(buf, p)}

\* A start code ends just before position e.
IsAfterStart(buf, e) == e >= 3 /\ Read(buf, e - 3, 3) = StartCode3

\* The first position at or after o where a start code begins, else the end.
NextStartFrom(buf, o) ==
    LET later == {p \in StartPositions(buf) : p >= o}
    IN  IF later = {} THEN Len(buf)
        ELSE CHOOSE p \in later : \A q \in later : p <= q

\* Byte k of buf belongs to a start code.
IsStartCodeByte(buf, k) ==
    \E p \in StartPositions(buf) : p <= k /\ k < p + StartLenAt(buf, p)

\* The units whose payload span holds byte k.
UnitsHolding(units, k) ==
    {i \in 1..Len(units) :
        units[i].offset <= k /\ k < units[i].offset + units[i].size}

\* C1: when parse_nal_units returns, the units are in stream order with
\* non-overlapping, strictly increasing spans; each offset is the position just
\* after a start code and each payload runs to the first start code at or after
\* that offset, or to the end of the buffer; a buffer without a start code
\* gives no unit; and from the first start code on, every byte is in exactly
\* one payload or is a start-code byte.
C1_PayloadSpans ==
    scan.pc = "done" =>
        LET buf == h264_data
            units == scan.nal_units
        IN  /\ \A i \in 1..Len(units) :
                  /\ IsAfterStart(buf, units[i].offset)
                  /\ units[i].offset + units[i].size
                        = NextStartFrom(buf, units[i].offset)
                  /\ units[i].data = Read(buf, units[i].offset, units[i].size)
            /\ \A i, j \in 1..Len(units) :
                  i < j => /\ units[i].offset < units[j].offset
                           /\ units[i].offset + units[i].size <= units[j].offset
            /\ StartPositions(buf) = {} => units = <<>>
            /\ \A k \in NextStartFrom(buf, 0)..(Len(buf) - 1) :
                  \/ Cardinality(UnitsHolding(units, k)) = 1
                  \/ /\ UnitsHolding(units, k) = {}
                     /\ IsStartCodeByte(buf, k)

\* C1 witness: a scan that returned two units, one of them after a 4-byte
\* start code.
C1_Witness ==
    /\ scan.pc = "done"
    /\ Len(scan.nal_units) = 2
    /\ \E i \in 1..2 : /\ scan.nal_units[i].offset >= 4
                       /\ Read(h264_data, scan.nal_units[i].offset - 4, 4)
                             = StartCode4

\* C2: every emitted unit has its type in 0..31, equal to the low 5 bits of the
\* first payload byte, a size of at least 1 that equals the number of payload
\* bytes; and where a start code is followed at once by another start code, no
\* unit is emitted for the first and the scan goes on with the second, whose
\* payload (when it has one) is emitted.
C2_UnitFields ==
    LET buf == h264_data
        units == scan.nal_units
    IN  /\ \A i \in 1..Len(units) :
              /\ units[i].size >= 1
              /\ units[i].size = Len(units[i].data)
              /\ units[i].type \in 0..31
              /\ units[i].type = buf[units[i].offset + 1] % 32
        /\ scan.pc = "done" =>
              \A e \in 0..(Len(buf) - 1) :
                  (IsAfterStart(buf, e) /\ IsStartAt(buf, e)) =>
                      LET e2 == e + StartLenAt(buf, e)
                      IN  /\ \A i \in 1..Len(units) : units[i].offset # e
                          /\ (e2 < Len(buf) /\ ~IsStartAt(buf, e2)) =>
                                \E i \in 1..Len(units) : units[i].offset = e2

\* C2 witness: a returned scan of a buffer where two start codes follow each
\* other directly and the second one's payload was emitted with type 5.
C2_Witness ==
    /\ scan.pc = "done"
    /\ \E e \in 0..(Len(h264_data) - 1) :
          /\ IsAfterStart(h264_data, e)
          /\ IsStartAt(h264_data, e)
          /\ \E i \in 1..Len(scan.nal_units) :
                /\ scan.nal_units[i].offset = e + StartLenAt(h264_data, e)
                /\ scan.nal_units[i].type = 5

----------------------------------------------------------------------------
(* Properties of the GOP segmenter *)

\* gs[1] \o ... \o gs[n]
RECURSIVE ConcatGops(_, _)
ConcatGops(gs, n) == IF n = 0 THEN <<>> ELSE ConcatGops(gs, n - 1) \o gs[n]

\* Len(gs[1]) + ... + Len(gs[n])
RECURSIVE SumGopSizes(_, _)
SumGopSizes(gs, n) == IF n = 0 THEN 0 ELSE SumGopSizes(gs, n - 1) + Len(gs[n])

IFramePositions(fs) == {k \in 1..Len(fs) : FrameType(fs[k]) = "I"}

\* C6: the returned GOPs partition the input: concatenated in order they hold
\* frame indices 0, 1, ..., n-1 once each, in input order and with each frame's
\* type, and the GOP sizes sum to the number of input frames.
C6_GopsPartition ==
    seg.pc = "done" =>
        LET flat == ConcatGops(gops, Len(gops))
        IN  /\ Len(flat) = Len(frames)
            /\ \A k \in 1..Len(flat) :
                  /\ flat[k].index = k - 1
                  /\ flat[k].type = FrameType(frames[k])
            /\ SumGopSizes(gops, Len(gops)) = Len(frames)

\* C6 witness: a segmented sequence of at least four frames, one of them
\* without pict_type, that gave at least two GOPs.
C6_Witness ==
    /\ seg.pc = "done"
    /\ Len(frames) >= 4
    /\ \E k \in 1..Len(frames) : "pict_type" \notin DOMAIN frames[k]
    /\ Len(gops) >= 2

\* C7: every returned GOP is non-empty; an I frame is only at position 0 of a
\* GOP; every GOP but the first begins with an I frame, and the first begins
\* with a non-I frame exactly when the first input frame is not I; so the
\* number of GOPs is the number of I frames, plus one when the sequence is
\* non-empty and does not start with I.
C7_GopShape ==
    seg.pc = "done" =>
        /\ \A g \in 1..Len(gops) :
              /\ gops[g] # <<>>
              /\ \A k \in 1..Len(gops[g]) : gops[g][k].type = "I" => k = 1
              /\ g > 1 => gops[g][1].type = "I"
        /\ gops # <<>> =>
              (gops[1][1].type # "I" <=> FrameType(frames[1]) # "I")
        /\ Len(gops) = Cardinality(IFramePositions(frames))
                         + (IF frames # <<>> /\ FrameType(frames[1]) # "I"
                              THEN 1 ELSE 0)

\* C7 witness: [I,P,P,I,P] segmented into two GOPs of sizes 3 and 2.
C7_Witness ==
    /\ seg.pc = "done"
    /\ frames = <<[pict_type |-> "I"], [pict_type |-> "P"], [pict_type |-> "P"],
                  [pict_type |-> "I"], [pict_type |-> "P"]>>
    /\ Len(gops) = 2
    /\ Len(gops[1]) = 3
    /\ Len(gops[2]) = 2

----------------------------------------------------------------------------
(* Properties of the classifier *)

IsSliceUnit(nal) == nal.type \in 1..5

\* A slice unit long enough for parse_slice_header to classify it.
IsClassifiedUnit(nal) == nal.type \in 1..5 /\ nal.size >= 2

\* The scanner and the classifier have run on the elementary stream.
Classified == scan.pc = "done" /\ ~IsNone(ref_data)

\* C3 as stated: one slice record per scanned unit of type 1..5, whatever its
\* payload length, and a record marked reference for every unit of type 5.
C3_Original ==
    Classified =>
        LET slices == SelectSeq(scan.nal_units, IsSliceUnit)
        IN  /\ Len(ref_data.frames) = Len(slices)
            /\ \A k \in 1..Len(slices) :
                  slices[k].type = 5 =>
                      /\ ref_data.frames[k].nal_type = 5
                      /\ ref_data.frames[k].is_reference

\* C3, amended: there is one slice record, in stream order, per scanned unit
\* of type 1..5 whose payload has at least 2 bytes (a 1-byte unit gives none);
\* the record's classification depends on nal_type alone, and a record for
\* type 5 is an IDR record (slice_type "I") with is_reference true.
C3_SliceRecords ==
    Classified =>
        LET slices == SelectSeq(scan.nal_units, IsClassifiedUnit)
            recs == ref_data.frames
        IN  /\ Len(recs) = Len(slices)
            /\ \A k \in 1..Len(recs) :
                  /\ recs[k].nal_type = slices[k].type
                  /\ recs[k].size = slices[k].size
                  /\ recs[k].nal_type = 5 =>
                        recs[k].slice_type = "I" /\ recs[k].is_reference
            /\ \A j, k \in 1..Len(recs) :
                  recs[j].nal_type = recs[k].nal_type =>
                      /\ recs[j].slice_type = recs[k].slice_type
                      /\ recs[j].is_reference = recs[k].is_reference

\* C3 witness: a classified stream with a 1-byte IDR unit, a longer IDR unit
\* and two type-1 units with different header bytes.
C3_Witness ==
    /\ Classified
    /\ \E i \in 1..Len(scan.nal_units) : scan.nal_units[i].data = <<101>>
    /\ \E i \in 1..Len(scan.nal_units) : scan.nal_units[i].data = <<101, 128>>
    /\ \E i \in 1..Len(scan.nal_units) : scan.nal_units[i].data = <<65, 128>>
    /\ \E i \in 1..Len(scan.nal_units) : scan.nal_units[i].data = <<1, 128>>
    /\ Len(ref_data.frames) = 3

\* C4: every slice record has is_reference true exactly when its nal_type is
\* 1, 2 or 5, computed from the low 5 bits of the unit's header byte whatever
\* its nal_ref_idc bits; records of type 3 or 4 are never reference.
C4_ReferenceByType ==
    Classified =>
        LET slices == SelectSeq(scan.nal_units, IsClassifiedUnit)
            recs == ref_data.frames
        IN  \A k \in 1..Len(recs) :
                /\ recs[k].is_reference <=> recs[k].nal_type \in {1, 2, 5}
                /\ k <= Len(slices) =>
                      (recs[k].is_reference
                          <=> (slices[k].data[1] % 32) \in {1, 2, 5})
                /\ recs[k].nal_type \in {3, 4} => ~recs[k].is_reference

\* C4 witness: records for a type-3 unit with nal_ref_idc 1, a type-4 unit
\* and a type-1 unit with nal_ref_idc 0.
C4_Witness ==
    /\ Classified
    /\ \E i \in 1..Len(scan.nal_units) : scan.nal_units[i].data = <<35, 128>>
    /\ \E i \in 1..Len(scan.nal_units) : scan.nal_units[i].data = <<36, 128>>
    /\ \E i \in 1..Len(scan.nal_units) : scan.nal_units[i].data = <<1, 128>>
    /\ \E k \in 1..Len(ref_data.frames) :
          ref_data.frames[k].nal_type = 3 /\ ~ref_data.frames[k].is_reference
    /\ \E k \in 1..Len(ref_data.frames) :
          ref_data.frames[k].nal_type = 1 /\ ref_data.frames[k].is_reference

\* C5 as stated: every slice record has slice_type "I" for nal_type 5 and
\* "P/B" for nal_type 1, 2, 3 and 4, never unset.
C5_Original ==
    Classified =>
        \A k \in 1..Len(ref_data.frames) :
            ref_data.frames[k].slice_type
                = (IF ref_data.frames[k].nal_type = 5 THEN "I" ELSE "P/B")

----------------------------------------------------------------------------
(* Properties of the statistics *)

\* analyze_video got both of ffprobe's answers.
HasMetadata == ~IsNone(video.frame_data) /\ ~IsNone(video.packet_data)

\* print_bitrate_analysis has been called and has not raised.
PastBitrate == vpc \in {"nal", "summary", "returned"} /\ HasMetadata

\* total_bits / duration with duration = frame_count / framerate, 0 when the
\* duration is 0.
ExpectedBitrate(sizes, framerate) ==
    IF Len(sizes) = 0 \/ framerate = 0 THEN RatOfInt(0)
    ELSE Rat(8 * SumSeq(sizes, Len(sizes)) * framerate, Len(sizes))

\* C8 as stated: for every frame-size sequence and integer frame rate no
\* division by zero occurs, the average bitrate is total_bits / duration (0
\* when the duration is 0), and the printed and the stored value agree.
C8_Original ==
    /\ raised.at \notin {"print_bitrate_analysis", "analyze_video"}
    /\ (PastBitrate /\ frame_sizes # <<>>) =>
          printed.avg_bitrate = ExpectedBitrate(frame_sizes, video.framerate)
    /\ (vpc = "returned" /\ ~IsNone(result)) =>
          /\ result.avg_bitrate = ExpectedBitrate(frame_sizes, video.framerate)
          /\ result.avg_bitrate = printed.avg_bitrate

\* C9 as stated: with no video packet the statistics do not fail and the
\* per-file result reports an average bitrate of 0.
C9_Original ==
    /\ raised.at \in {"print_bitrate_analysis", "analyze_video"} =>
          frame_sizes # <<>>
    /\ (vpc = "returned" /\ HasMetadata /\ frame_sizes = <<>>) =>
          (~IsNone(result) /\ result.avg_bitrate = RatOfInt(0))

\* C9, amended: with no video packet neither print_bitrate_analysis nor the
\* summary computation raises, no average bitrate is printed, and
\* analyze_video returns None: there is no per-file result and no bitrate in
\* it.
C9_EmptySizesNoSummary ==
    /\ raised.at \in {"print_bitrate_analysis", "analyze_video"} =>
          frame_sizes # <<>>
    /\ (PastBitrate /\ frame_sizes = <<>>) => IsNone(printed.avg_bitrate)
    /\ (vpc = "returned" /\ frame_sizes = <<>>) => IsNone(result)

\* C9 witness: analyze_video returned for a file with frames and packets,
\* none of the packets a video packet.
C9_Witness ==
    /\ vpc = "returned"
    /\ HasMetadata
    /\ gops # <<>>
    /\ packets # <<>>
    /\ frame_sizes = <<>>
    /\ IsNone(result)

ReferencePositions(recs) == {k \in 1..Len(recs) : recs[k].is_reference}

ExpectedRatio(recs) ==
    IF recs = <<>> THEN RatOfInt(0)
    ELSE Rat(100 * Cardinality(ReferencePositions(recs)), Len(recs))

\* C10: the reference ratio of the summary, and the one printed in the
\* reference report, is 100 times the number of records with is_reference
\* over the number of records; the summary's is 0 when there are no records
\* (no NAL unit, or no elementary stream).
C10_ReferenceRatio ==
    /\ (vpc = "returned" /\ ~IsNone(result)) =>
          /\ result.ref_ratio = ExpectedRatio(ref_data.frames)
          /\ ref_data.frames = <<>> => result.ref_ratio = RatOfInt(0)
    /\ ~IsNone(printed.ref_ratio) =>
          printed.ref_ratio = ExpectedRatio(ref_data.frames)

\* C10 witness: the summary of records [ref, ref, nonref, ref] holds 75.
C10_Witness ==
    /\ vpc = "returned"
    /\ ~IsNone(result)
    /\ Len(ref_data.frames) = 4
    /\ ref_data.frames[1].is_reference
    /\ ref_data.frames[2].is_reference
    /\ ~ref_data.frames[3].is_reference
    /\ ref_data.frames[4].is_reference
    /\ result.ref_ratio = RatOfInt(75)

----------------------------------------------------------------------------
(* Termination of the scanner *)

\* A bound on the loop steps the scan still has to take: it is at most
\* 3 * Len(buf) + 1 on entry and 0 after the return.
ScanRank(buf, st) ==
    IF st.pc = "outer" THEN 3 * (Len(buf) - st.pos) + 1
    ELSE IF st.pc = "inner" THEN 3 * (Len(buf) - st.pos) + 3
    ELSE IF st.pc = "extract" THEN 3 * (Len(buf) - st.next_start) + 2
    ELSE 0

\* C14 as stated: every iteration of the outer loop (whether it advances one
\* byte, stops, or ends with the extraction of a unit) and every iteration of
\* the inner search leaves the read position strictly greater than at the
\* start of that iteration.
C14_Original ==
    [][/\ (scan.pc = "outer" /\ scan'.pc \in {"outer", "done"}) =>
              scan'.pos > scan.pos
       /\ scan.pc = "extract" => scan'.pos > scan.start_pos
       /\ scan.pc = "inner" => scan'.pos > scan.pos]_vars

\* C14, amended: every iteration that goes round its loop again leaves the
\* read position strictly greater than at its start: the outer loop after
\* advancing one byte and after a unit was extracted or discarded (the seek
\* back after a 3-byte start code included), the inner search after advancing
\* one byte; an iteration that leaves its loop never moves the position back.
\* Every step lowers ScanRank, so the scan returns after at most
\* 3 * len + 1 steps, with a list of at most len units.
C14_ScanTerminates ==
    /\ [](/\ ScanRank(h264_data, scan) >= 0
          /\ ScanRank(h264_data, scan) <= 3 * Len(h264_data) + 1
          /\ scan.pc # "idle" =>
                /\ scan.pos \in 0..Len(h264_data)
                /\ Len(scan.nal_units) <= Len(h264_data))
    /\ [][/\ (scan.pc = "outer" /\ scan'.pc = "outer") => scan'.pos > scan.pos
          /\ (scan.pc = "outer" /\ scan'.pc = "inner") =>
                (scan'.pos > scan.pos /\ scan'.nal_start = scan'.pos)
          /\ (scan.pc = "outer" /\ scan'.pc = "done") => scan'.pos >= scan.pos
          /\ (scan.pc = "inner" /\ scan'.pc = "inner") => scan'.pos > scan.pos
          /\ (scan.pc = "inner" /\ scan'.pc = "extract") =>
                (scan'.pos >= scan.pos /\ scan'.next_start >= scan.nal_start)
          /\ scan.pc = "extract" =>
                (scan'.pos > scan.start_pos /\ scan'.pc = "outer")
          /\ scan' # scan =>
                ScanRank(h264_data', scan') < ScanRank(h264_data, scan)]_vars

\* C14 witness: a scan that has returned after a 3-byte start code's seek
\* back, a discarded zero-length unit and an emitted unit.
C14_Witness ==
    /\ scan.pc = "done"
    /\ scan.start_code_len = 3
    /\ Len(scan.nal_units) >= 1
    /\ \E e \in 0..(Len(h264_data) - 1) :
          IsAfterStart(h264_data, e) /\ IsStartAt(h264_data, e)
    /\ ScanRank(h264_data, scan) = 0

----------------------------------------------------------------------------
(* Properties of the reference-frame report *)

\* C15: the three counts print_reference_analysis prints partition the slice
\* records: IDR + non-IDR reference + non-reference is the number of records,
\* and IDR + non-IDR reference is the number of records with is_reference; so
\* the ratio it prints is the ref_ratio analyze_video stores in the summary.
C15_CountsPartition ==
    ~IsNone(printed.ref_counts) =>
        LET c == printed.ref_counts
            recs == ref_data.frames
        IN  /\ c.total = Len(recs)
            /\ c.idr = Cardinality({k \in 1..Len(recs) : recs[k].nal_type = 5})
            /\ c.non_ref
                 = Cardinality({k \in 1..Len(recs) : ~recs[k].is_reference})
            /\ c.idr + c.non_idr_ref + c.non_ref = c.total
            /\ c.idr + c.non_idr_ref = Cardinality(ReferencePositions(recs))
            /\ (vpc = "returned" /\ ~IsNone(result)) =>
                  result.ref_ratio = printed.ref_ratio

\* C15 witness: a returned summary for a stream whose report counted an IDR,
\* a non-IDR reference and a non-reference record.
C15_Witness ==
    /\ vpc = "returned"
    /\ ~IsNone(result)
    /\ ~IsNone(printed.ref_counts)
    /\ printed.ref_counts.idr >= 1
    /\ printed.ref_counts.non_idr_ref >= 1
    /\ printed.ref_counts.non_ref >= 1
    /\ result.ref_ratio = printed.ref_ratio

----------------------------------------------------------------------------
(* Acquisition failures in analyze_video *)

\* extract_raw_h264_stream gave None or no byte.
NoStream == IsNone(video.stream) \/ video.stream.data = <<>>

\* C13: when the frame or the packet metadata cannot be obtained,
\* analyze_video returns no summary and neither the GOP segmenter nor the NAL
\* scanner is ever invoked; when the elementary stream cannot be obtained or
\* is empty, the scanner is never invoked, the GOP and bitrate results stay as
\* computed and a returned summary carries reference ratio 0.
C13_FailuresSurfaceFirst ==
    /\ (~IsNone(video) /\ ~HasMetadata) =>
          /\ IsNone(result)
          /\ seg = NoSeg
          /\ scan = NoScan
          /\ gops = <<>>
          /\ IsNone(ref_data)
          /\ vpc \in {"frame_data", "packet_data", "returned"}
    /\ (~IsNone(video) /\ HasMetadata /\ NoStream) =>
          /\ scan = NoScan
          /\ vpc \in {"summary", "returned"} =>
                /\ gops = analyze_gop_structure(video.frame_data.frames)
                /\ frame_sizes
                     = analyze_bitrate(video.packet_data.packets).frame_sizes
                /\ ref_data.frames = <<>>
          /\ (vpc = "returned" /\ ~IsNone(result)) =>
                /\ result.ref_ratio = RatOfInt(0)
                /\ result.avg_bitrate = printed.avg_bitrate
                /\ result.i_frame_count = CountIFrames(gops, Len(gops))

\* C13 witness: analyze_video returned a summary with reference ratio 0 for a
\* file whose elementary stream could not be extracted.
C13_Witness ==
    /\ vpc = "returned"
    /\ HasMetadata
    /\ IsNone(video.stream)
    /\ gops # <<>>
    /\ scan = NoScan
    /\ ~IsNone(result)
    /\ result.ref_ratio = RatOfInt(0)

----------------------------------------------------------------------------
(* Properties of main *)

\* The input positions whose call of analyze_video returned a summary.
Succeeded ==
    {k \in 1..Len(args.videos) :
        \E c \in 1..Len(main.analyzed) :
            /\ main.analyzed[c].index = k
            /\ ~IsNone(main.analyzed[c].result)}

\* The summary the call for input position k returned.
SummaryOf(k) ==
    LET c == CHOOSE c \in 1..Len(main.analyzed) : main.analyzed[c].index = k
    IN  main.analyzed[c].result

\* The j-th smallest element of a set of positions.
Nth(S, j) == CHOOSE k \in S : Cardinality({m \in S : m <= k}) = j

\* C11 as stated: when every input file either succeeds or fails (file
\* missing, or metadata not obtained), no failure stops the loop, every
\* existing file is handed to analyze_video, and with at least 2 files
\* succeeded the comparison table is printed with one row per succeeded file
\* in the order of the input.
C11_Original ==
    /\ main.pc = "loop" =>
          \A k \in 1..main.i :
              disk[args.videos[k]].exists =>
                  \E c \in 1..Len(main.analyzed) : main.analyzed[c].index = k
    /\ (main.pc = "done" /\ Cardinality(Succeeded) >= 2) =>
          /\ ~IsNone(main.table)
          /\ Len(main.table) = Cardinality(Succeeded)
          /\ \A j \in 1..Cardinality(Succeeded) :
                main.table[j]
                  = TableRow([key |-> PathName(args.videos[Nth(Succeeded, j)]),
                              value |-> SummaryOf(Nth(Succeeded, j))])

\* C12: two calls of the analysis on the same byte buffer, frame and packet
\* records and frame rate compute the same units, slice records, GOPs, frame
\* sizes and summary, whatever was analysed before or between them; and when
\* a call returns, the buffer and the frame list it was given still hold what
\* the file holds.
C12_SameInputsSameResults ==
    /\ \A c, d \in 1..(IF main.pc = "idle" THEN 0 ELSE Len(main.analyzed)) :
          main.analyzed[c].input = main.analyzed[d].input =>
              /\ main.analyzed[c].nal_units = main.analyzed[d].nal_units
              /\ main.analyzed[c].ref_data = main.analyzed[d].ref_data
              /\ main.analyzed[c].gops = main.analyzed[d].gops
              /\ main.analyzed[c].frame_sizes = main.analyzed[d].frame_sizes
              /\ main.analyzed[c].result = main.analyzed[d].result
    /\ (main.pc = "call" /\ vpc = "returned") =>
          LET file == disk[args.videos[main.i + 1]]
          IN  /\ video.frame_data = file.frame_data
              /\ video.stream = file.stream
              /\ ~IsNone(file.frame_data) => frames = file.frame_data.frames
              /\ scan # NoScan =>
                    (~IsNone(file.stream) /\ h264_data = file.stream.data)

\* C12 witness: main analysed the file with an elementary stream, then
\* another file, then the first kind again, and both runs gave units, GOPs
\* and a summary.
C12_Witness ==
    /\ main.pc = "done"
    /\ Len(main.analyzed) = 3
    /\ main.analyzed[1].input = main.analyzed[3].input
    /\ main.analyzed[1].input # main.analyzed[2].input
    /\ Len(main.analyzed[3].nal_units) = 2
    /\ main.analyzed[3].gops # <<>>
    /\ ~IsNone(main.analyzed[3].result)
    /\ main.analyzed[1].result = main.analyzed[3].result

====
